---- MODULE Spec2Model ----
(***************************************************************************)
(* A model of the snake game of nirblo50/Snake-Game: the GameBoard object  *)
(* (game.py) with its Snake (snake.py), Bomb (bomb.py) and Apples          *)
(* (apple.py), driven through its public methods execute_round and         *)
(* get_new_score.  Cells are pairs <<x, y>>; Python lists are sequences.   *)
(***************************************************************************)
EXTENDS Integers, Sequences, FiniteSets, TLC

VARIABLES
    cells,                \* Snake.__cells, tail to head
    direction,            \* Snake._direction
    grow_turns,           \* Snake._grow_turns
    apples,               \* GameBoard.apples, a list of [cell, score]
    bomb,                 \* GameBoard.bomb
    score,                \* GameBoard.score
    should_quit,          \* GameBoard.should_quit
    new_score_available,  \* GameBoard.new_score_available
    pc,                   \* "ready", or "hung" inside a placement loop that cannot end
    rounds,               \* number of execute_round calls made so far
    last,                 \* what the last call was and how its steps ended
    eaten,                \* history: number of apples eaten since construction
    asked,                \* history: get_new_score has been called
    reported,             \* history: the value of eaten at the last get_new_score
    growth                \* history: the growth that followed the last apple eaten

vars == <<cells, direction, grow_turns, apples, bomb, score, should_quit,
          new_score_available, pc, rounds, last, eaten, asked, reported, growth>>

----------------------------------------------------------------------------
(* Bounds of the model. *)

\* The grid of game_parameters (a module outside the repository's sources).
WIDTH == 12
HEIGHT == 12
\* execute_round is called at most this many times.
MaxRounds == 5
\* Largest bomb origin offset and radius the pure bomb checks range over.
MaxBombRadius == 3
MaxBombTimer == 2

\* What game_parameters.get_random_apple_data() may return: <<x, y, score>>.
AppleData ==
    { <<9, 10, 5>>, <<10, 11, 2>>, <<9, 9, 1>>, <<8, 10, 3>>, <<11, 11, 1>>,
      <<-1, 10, 4>> }

\* What game_parameters.get_random_bomb_data() may return:
\* <<x, y, max_radius, turns_until_boom>>.
BombData ==
    { <<11, 10, 1, 1>>, <<8, 9, 2, 1>>, <<10, 11, 0, 2>>, <<9, -1, 1, 1>> }

\* The keys execute_round may be given; "None" stands for Python's None.
Keys == {"Left", "Right", "Up", "Down", "None"}

----------------------------------------------------------------------------
(* game.py constants *)

NUMBER_OF_APPLES == 3
INITIAL_SNAKE_CELLS == << <<10, 8>>, <<10, 9>>, <<10, 10>> >>
APPLE_GROW_SIZE == 3
\* A slip: the snake starting out sideways
INITIAL_SNAKE_DIRECTION_LEFT == "Left"
INITIAL_SNAKE_DIRECTION == "Up"

BLACK == "black"
RED == "red"
GREEN == "green"
ORANGE == "orange"

----------------------------------------------------------------------------
(* Python list helpers *)

Abs(n) == IF n < 0 THEN -n ELSE n

\* `x in lst`
In(x, lst) == \E k \in 1..Len(lst) : lst[k] = x

\* lst with the element at position k (1-based) removed
RemoveAt(lst, k) == SubSeq(lst, 1, k - 1) \o SubSeq(lst, k + 1, Len(lst))

----------------------------------------------------------------------------
(* snake.py *)

LEGAL_DIRECTIONS ==
    [d \in {"Left", "Right", "Up", "Down"} |->
        IF d \in {"Left", "Right"} THEN <<"Up", "Down">> ELSE <<"Left", "Right">>]

DIRECTION_VECTORS ==
    [d \in {"Left", "Right", "Up", "Down"} |->
        CASE d = "Left"  -> <<-1, 0>>
          [] d = "Right" -> <<1, 0>>
          [] d = "Up"    -> <<0, 1>>
          [] d = "Down"  -> <<0, -1>>]

\* A slip: any direction key accepted, a reversal included
change_direction_any(dir, key) ==
    IF key \in DOMAIN LEGAL_DIRECTIONS THEN key ELSE dir

\* Snake.change_direction: the direction after a request
change_direction(dir, key) ==
    IF In(key, LEGAL_DIRECTIONS[dir]) THEN key ELSE dir

\* A slip: the growth counter never counted down
shorten_tail_keeps_counter(cs, gt) ==
    IF gt > 0 THEN <<cs, gt>> ELSE <<Tail(cs), gt>>

\* Snake.shorten_tail on a non-empty cell list (or with growth pending):
\* the pair <<cells, grow_turns>> it leaves
shorten_tail(cs, gt) ==
    IF gt > 0 THEN <<cs, gt - 1>> ELSE <<Tail(cs), gt>>

\* Snake.head
head(cs) == cs[Len(cs)]

\* A slip: the y axis taken to grow downwards
get_new_head_flipped(cs, dir) ==
    <<head(cs)[1] + DIRECTION_VECTORS[dir][1],
      head(cs)[2] - DIRECTION_VECTORS[dir][2]>>

\* Snake.get_new_head
get_new_head(cs, dir) ==
    <<head(cs)[1] + DIRECTION_VECTORS[dir][1],
      head(cs)[2] + DIRECTION_VECTORS[dir][2]>>

\* Snake.advance_head
advance_head(cs, dir) == Append(cs, get_new_head(cs, dir))

\* A slip: the counter set to the amount instead of raised by it
grow_overwrites(gt, amount) == amount

\* Snake.grow
grow(gt, amount) == gt + amount

----------------------------------------------------------------------------
(* bomb.py *)

\* Bomb.__init__
NewBomb(cell, turns_until_boom, max_radius) ==
    [cell |-> cell, max_radius |-> max_radius,
     turns_until_boom |-> turns_until_boom, current_radius |-> 0]

\* The inner loop of the list comprehension of get_blast_cells: the cells of
\* row j, columns i = x-r .. x+r in this order, that pass the test
BlastRow(x, y, r, j) ==
    SelectSeq([n \in 1..(2 * r + 1) |-> <<x - r + n - 1, j>>],
              LAMBDA c : Abs(x - c[1]) + Abs(y - c[2]) = r)

\* The outer loop of the list comprehension, from row j on: rows j = y-r .. y+r
RECURSIVE BlastScan(_, _, _, _)
BlastScan(x, y, r, j) ==
    IF j > y + r THEN <<>>
    ELSE BlastRow(x, y, r, j) \o BlastScan(x, y, r, j + 1)

\* Bomb.get_blast_cells
get_blast_cells(b) ==
    IF b.turns_until_boom > 0 THEN <<>>
    ELSE BlastScan(b.cell[1], b.cell[2], b.current_radius,
                   b.cell[2] - b.current_radius)

\* A slip: the bomb's own cell listed after it went off as well
get_bomb_cells_always(b) == <<b.cell>>

\* Bomb.get_bomb_cells
get_bomb_cells(b) == IF b.turns_until_boom > 0 THEN <<b.cell>> ELSE <<>>

\* Bomb.get_all_cells
get_all_cells(b) == get_blast_cells(b) \o get_bomb_cells(b)

\* Bomb.is_done
is_done(b) == b.current_radius >= b.max_radius

\* A slip: the `else` lost, the radius growing while the timer still runs
advance_no_else(b) ==
    [b EXCEPT !.turns_until_boom = IF @ > 0 THEN @ - 1 ELSE @,
              !.current_radius = @ + 1]

\* Bomb.advance
advance(b) ==
    IF b.turns_until_boom > 0
    THEN [b EXCEPT !.turns_until_boom = @ - 1]
    ELSE [b EXCEPT !.current_radius = @ + 1]

----------------------------------------------------------------------------
(* game.py: GameBoard *)

\* A slip: only the upper ends of the board tested
is_cell_legal_upper(cell) ==
    cell[1] < WIDTH /\ cell[2] < HEIGHT

\* GameBoard.__is_cell_legal
is_cell_legal(cell) ==
    (0 <= cell[1] /\ cell[1] < WIDTH) /\ (0 <= cell[2] /\ cell[2] < HEIGHT)

\* [apple.cell for apple in self.apples]
AppleCells(aps) == [k \in 1..Len(aps) |-> aps[k].cell]

\* A slip: the apples left out of the occupied cells
validate_cells_empty_no_apples(check, cs, aps, b, including_bomb) ==
    LET full_cells == cs \o (IF including_bomb THEN get_all_cells(b) ELSE <<>>)
    IN  \A k \in 1..Len(check) :
            is_cell_legal(check[k]) /\ ~In(check[k], full_cells)

\* GameBoard.__validate_cells_empty
validate_cells_empty(check, cs, aps, b, including_bomb) ==
    LET full_cells == cs \o AppleCells(aps)
                      \o (IF including_bomb THEN get_all_cells(b) ELSE <<>>)
    IN  \A k \in 1..Len(check) :
            is_cell_legal(check[k]) /\ ~In(check[k], full_cells)

\* A slip: the first draw returned as it is
randomize_bomb_unchecked(cs, aps) ==
    { NewBomb(<<d[1], d[2]>>, d[4], d[3]) : d \in BombData }

\* GameBoard.__randomize_bomb: the bombs the redraw loop can return; the empty
\* set when no draw passes, in which case the loop never ends.
randomize_bomb(cs, aps) ==
    { nb \in { NewBomb(<<d[1], d[2]>>, d[4], d[3]) : d \in BombData } :
        validate_cells_empty(<<nb.cell>>, cs, aps, nb, FALSE) }

\* GameBoard.__randomize_apple: the apples the redraw loop can return
randomize_apple(cs, aps, b) ==
    { a \in { [cell |-> <<d[1], d[2]>>, score |-> d[3]] : d \in AppleData } :
        validate_cells_empty(<<a.cell>>, cs, aps, b, TRUE) }

\* A slip: the cells of the bomb left out of the count
is_board_full_no_bomb(cs, aps, b) ==
    WIDTH * HEIGHT <= Len(cs) + Len(aps)

\* A slip: the comparison turned around
is_board_full_flipped(cs, aps, b) ==
    WIDTH * HEIGHT >= Len(cs) + Len(aps) + Len(get_all_cells(b))

\* GameBoard.__is_board_full
is_board_full(cs, aps, b) ==
    WIDTH * HEIGHT <= Len(cs) + Len(aps) + Len(get_all_cells(b))

\* GameBoard.__generate_apples: the set of ways the loop can end, each
\* [apples, quit (should_quit was set), hung (a placement loop cannot end)]
RECURSIVE generate_apples(_, _, _)
generate_apples(cs, aps, b) ==
    IF ~(Len(aps) < NUMBER_OF_APPLES)
    THEN {[apples |-> aps, quit |-> FALSE, hung |-> FALSE]}
    ELSE IF is_board_full(cs, aps, b)
    THEN {[apples |-> aps, quit |-> TRUE, hung |-> FALSE]}
    ELSE LET drawn == randomize_apple(cs, aps, b)
         IN  IF drawn = {}
             THEN {[apples |-> aps, quit |-> FALSE, hung |-> TRUE]}
             ELSE UNION { generate_apples(cs, Append(aps, a), b) : a \in drawn }

\* The loop `for apple in self.apples: if apple.cell == new_head: ...` of
\* __update_snake_head, from list position i on. Removing the visited item
\* shifts the rest down, so the iterator skips the item that follows it.
\* st = [apples, score, new_score_available, grow_turns].
RECURSIVE EatLoop(_, _, _)
EatLoop(st, i, new_head) ==
    IF i > Len(st.apples) THEN st
    ELSE IF st.apples[i].cell = new_head
    THEN EatLoop([apples |-> RemoveAt(st.apples, i),
                  score |-> st.score + st.apples[i].score,
                  new_score_available |-> TRUE,
                  grow_turns |-> grow(st.grow_turns, APPLE_GROW_SIZE)],
                 i + 1, new_head)
    ELSE EatLoop(st, i + 1, new_head)

\* A slip: the snake's own cells left out of the collision test
collides_no_snake(new_head, cs, b) ==
    (~is_cell_legal(new_head)) \/ In(new_head, get_all_cells(b))

\* A slip: the bomb left out of the collision test
collides_no_bomb(new_head, cs, b) ==
    (~is_cell_legal(new_head)) \/ In(new_head, cs)

\* The collision test of __update_snake_head: the new head is off the board,
\* on the snake, or on a cell of the bomb
collides(new_head, cs, b) ==
    (~is_cell_legal(new_head)) \/ In(new_head, cs)
        \/ In(new_head, get_all_cells(b))

\* GameBoard.__update_snake_head on the board record bd. out is "raised"
\* (IndexError on an empty cell list), "quit", "moved" or "ate".
update_snake_head(bd) ==
    IF bd.grow_turns = 0 /\ bd.cells = <<>>
    THEN [bd |-> bd, out |-> "raised"]                \* cells.pop(0) of []
    ELSE
    LET sh == shorten_tail(bd.cells, bd.grow_turns)
        b1 == [bd EXCEPT !.cells = sh[1], !.grow_turns = sh[2]]
    IN  IF b1.cells = <<>>
        THEN [bd |-> b1, out |-> "raised"]            \* self.cells[-1] of []
        ELSE
        LET new_head == get_new_head(b1.cells, b1.direction) IN
        IF collides(new_head, b1.cells, b1.bomb)
        THEN [bd |-> [b1 EXCEPT !.should_quit = TRUE], out |-> "quit"]
        ELSE
        LET st == EatLoop([apples |-> b1.apples, score |-> b1.score,
                           new_score_available |-> b1.new_score_available,
                           grow_turns |-> b1.grow_turns], 1, new_head)
            b2 == [b1 EXCEPT !.apples = st.apples, !.score = st.score,
                             !.new_score_available = st.new_score_available,
                             !.grow_turns = st.grow_turns]
        IN  [bd |-> [b2 EXCEPT !.cells = advance_head(b2.cells, b2.direction)],
             out |-> IF Len(st.apples) < Len(b1.apples) THEN "ate" ELSE "moved"]

\* A slip: the apples under the blast left where they are
BlastApples_none(aps, i, cell) == aps

\* The loop `for apple in self.apples: if apple.cell == cell: remove` of
\* __update_bomb, from list position i on (same iterator behaviour).
RECURSIVE BlastApples(_, _, _)
BlastApples(aps, i, cell) ==
    IF i > Len(aps) THEN aps
    ELSE IF aps[i].cell = cell THEN BlastApples(RemoveAt(aps, i), i + 1, cell)
    ELSE BlastApples(aps, i + 1, cell)

\* The second loop of __update_bomb over the bomb's cells, from position k on
RECURSIVE BlastLoop(_, _, _, _)
BlastLoop(all, k, cs, aps) ==
    IF k > Len(all) THEN [apples |-> aps, quit |-> FALSE]
    ELSE IF In(all[k], cs) THEN [apples |-> aps, quit |-> TRUE]
    ELSE BlastLoop(all, k + 1, cs, BlastApples(aps, 1, all[k]))

\* The bomb replaced by a randomized one, or the loop hanging
ReplaceBomb(cs, aps, b, how) ==
    IF randomize_bomb(cs, aps) = {}
    THEN {[bomb |-> b, apples |-> aps, quit |-> FALSE, out |-> "hung"]}
    ELSE {[bomb |-> nb, apples |-> aps, quit |-> FALSE, out |-> how] :
             nb \in randomize_bomb(cs, aps)}

\* A slip: the test for cells off the board left out
update_bomb_no_edge(cs, aps, b) ==
    IF is_done(b) THEN ReplaceBomb(cs, aps, b, "spent_replaced")
    ELSE
    LET b1 == advance(b)
        r == BlastLoop(get_all_cells(b1), 1, cs, aps)
    IN  {[bomb |-> b1, apples |-> r.apples, quit |-> r.quit,
          out |-> IF r.quit THEN "killed" ELSE "advanced"]}

\* GameBoard.__update_bomb: the set of ways it can end, each [bomb, apples,
\* quit, out], out being "spent_replaced", "edge_replaced", "killed",
\* "advanced" or "hung"
update_bomb(cs, aps, b) ==
    IF is_done(b) THEN ReplaceBomb(cs, aps, b, "spent_replaced")
    ELSE
    LET b1 == advance(b)
        all == get_all_cells(b1)
    IN  IF \E k \in 1..Len(all) : ~is_cell_legal(all[k])
        THEN ReplaceBomb(cs, aps, b1, "edge_replaced")
        ELSE LET r == BlastLoop(all, 1, cs, aps)
             IN  {[bomb |-> b1, apples |-> r.apples, quit |-> r.quit,
                   out |-> IF r.quit THEN "killed" ELSE "advanced"]}

\* GameBoard.draw_board
draw_board(cs, aps, b) ==
    [k \in 1..Len(cs) |-> <<cs[k][1], cs[k][2], BLACK>>]
    \o [k \in 1..Len(get_bomb_cells(b)) |->
            <<get_bomb_cells(b)[k][1], get_bomb_cells(b)[k][2], RED>>]
    \o [k \in 1..Len(get_blast_cells(b)) |->
            <<get_blast_cells(b)[k][1], get_blast_cells(b)[k][2], ORANGE>>]
    \o [k \in 1..Len(aps) |-> <<aps[k].cell[1], aps[k].cell[2], GREEN>>]

----------------------------------------------------------------------------
(* The GameBoard object as a state machine *)

\* The board's fields as one record
Board ==
    [cells |-> cells, direction |-> direction, grow_turns |-> grow_turns,
     apples |-> apples, bomb |-> bomb, score |-> score,
     should_quit |-> should_quit, new_score_available |-> new_score_available]

\* The record kept of the last call: op is "init", "round", "score", "cells"
\* or "advance"; for a round, before is should_quit as the round began,
\* vacated the cell shorten_tail removed (<<>> when none), head, bombstep and
\* applestep how steps 2, 3 and 4 ended; ret is a returned value, <<>> for None
Called(op, before, vacated, hd, bs, as, ret) ==
    [op |-> op, before |-> before, vacated |-> vacated, head |-> hd,
     bombstep |-> bs, applestep |-> as, ret |-> ret]

\* GameBoard.__init__
Init ==
    /\ cells = INITIAL_SNAKE_CELLS
    /\ direction = INITIAL_SNAKE_DIRECTION
    /\ grow_turns = 0
    /\ \E nb \in randomize_bomb(INITIAL_SNAKE_CELLS, <<>>) :
       \E r \in generate_apples(INITIAL_SNAKE_CELLS, <<>>, nb) :
          /\ bomb = nb
          /\ apples = r.apples
          /\ pc = IF r.hung THEN "hung" ELSE "ready"
    /\ score = 0
    /\ should_quit = FALSE
    /\ new_score_available = TRUE
    /\ rounds = 0
    /\ last = Called("init", FALSE, <<>>, "none", "none", "none", <<>>)
    /\ eaten = 0
    /\ asked = FALSE
    /\ reported = 0
    /\ growth = <<>>

\* A slip: leaving only when this round's own head check failed
ends_after_head_this_round(out, quit) == out \in {"raised", "quit"}

\* A slip: no early return after the snake step
ends_after_head_never(out, quit) == out = "raised"

\* `if self.should_quit: return` after __update_snake_head (an IndexError
\* leaves execute_round as well)
ends_after_head(out, quit) == out = "raised" \/ quit

\* `if self.should_quit: return` after __update_bomb (a placement loop that
\* cannot end never reaches it)
ends_after_bomb(out, quit) == out = "hung" \/ quit

\* History of the last apple eaten with no growth pending: <<length of the
\* snake then, rounds that moved the snake since>>, while the game runs and no
\* further apple is eaten; <<>> otherwise.
GrowthAfter(out, quit_after) ==
    IF should_quit \/ quit_after THEN <<>>
    ELSE IF out = "ate"
    THEN (IF grow_turns = 0 THEN <<Len(cells), 0>> ELSE <<>>)
    ELSE IF out = "moved" /\ growth # <<>>
    THEN <<growth[1], growth[2] + 1>>
    ELSE <<>>

\* GameBoard.execute_round(key_clicked)
ExecuteRound(key) ==
    /\ pc = "ready"
    /\ rounds < MaxRounds
    /\ rounds' = rounds + 1
    /\ UNCHANGED <<asked, reported>>
    /\ \E r2 \in {update_snake_head(
                    [Board EXCEPT !.direction = change_direction(direction, key)])} :
       \E b2 \in {r2.bd} :
       \E vac \in {IF Len(b2.cells) < Len(cells) \/ (r2.out \in {"moved", "ate"}
                                                     /\ Len(b2.cells) = Len(cells))
                   THEN <<cells[1]>> ELSE <<>>} :
       /\ cells' = b2.cells
       /\ direction' = b2.direction
       /\ grow_turns' = b2.grow_turns
       /\ score' = b2.score
       /\ new_score_available' = b2.new_score_available
       /\ eaten' = eaten + (Len(apples) - Len(b2.apples))
       /\ IF ends_after_head(r2.out, b2.should_quit)
          THEN /\ apples' = b2.apples
               /\ bomb' = b2.bomb
               /\ should_quit' = b2.should_quit
               /\ pc' = "ready"
               /\ growth' = GrowthAfter(r2.out, b2.should_quit)
               /\ last' = Called("round", should_quit, vac, r2.out,
                                 "skipped", "skipped", <<>>)
          ELSE \E r3 \in update_bomb(b2.cells, b2.apples, b2.bomb) :
               /\ bomb' = r3.bomb
               /\ IF ends_after_bomb(r3.out, r3.quit)
                  THEN /\ apples' = r3.apples
                       /\ should_quit' = (b2.should_quit \/ r3.quit)
                       /\ pc' = IF r3.out = "hung" THEN "hung" ELSE "ready"
                       /\ growth' = GrowthAfter(r2.out, TRUE)
                       /\ last' = Called("round", should_quit, vac, r2.out,
                                         r3.out, "skipped", <<>>)
                  ELSE \E r4 \in generate_apples(b2.cells, r3.apples, r3.bomb) :
                       /\ apples' = r4.apples
                       /\ should_quit' = (b2.should_quit \/ r4.quit)
                       /\ pc' = IF r4.hung THEN "hung" ELSE "ready"
                       /\ growth' = GrowthAfter(r2.out, r4.quit \/ r4.hung)
                       /\ last' = Called("round", should_quit, vac, r2.out, r3.out,
                                         IF r4.hung THEN "hung"
                                         ELSE IF r4.quit THEN "full" ELSE "ok",
                                         <<>>)

\* A slip: the flag left set, so that the same score is handed out again
GetNewScoreKeepsFlag ==
    /\ pc = "ready"
    /\ new_score_available' = new_score_available
    /\ last' = Called("score", should_quit, <<>>, "none", "none", "none",
                      IF ~new_score_available THEN <<>> ELSE <<score>>)
    /\ asked' = TRUE
    /\ reported' = eaten
    /\ UNCHANGED <<cells, direction, grow_turns, apples, bomb, score,
                   should_quit, pc, rounds, eaten, growth>>

\* GameBoard.get_new_score(); the value returned is last'.ret, <<>> for None
GetNewScore ==
    /\ pc = "ready"
    /\ new_score_available' = FALSE
    /\ last' = Called("score", should_quit, <<>>, "none", "none", "none",
                      IF ~new_score_available THEN <<>> ELSE <<score>>)
    /\ asked' = TRUE
    /\ reported' = eaten
    /\ UNCHANGED <<cells, direction, grow_turns, apples, bomb, score,
                   should_quit, pc, rounds, eaten, growth>>

Next ==
    \/ \E key \in Keys : ExecuteRound(key)
    \/ GetNewScore

Spec == Init /\ [][Next]_vars

\* main_loop with a player who never presses a key
NextNoInput ==
    \/ ExecuteRound("None")
    \/ GetNewScore

SpecNoInput == Init /\ [][NextNoInput]_vars

----------------------------------------------------------------------------
(* A Bomb object on its own: constructed, advanced and asked for its cells *)

\* The origins the bombs of this specification are built at
BombOrigins == { <<0, 0>>, <<10, 11>>, <<3, 7>>, <<11, 0>> }

\* Bomb.__init__, with no board around it
InitBomb ==
    /\ bomb \in { NewBomb(o, t, m) :
                    o \in BombOrigins, t \in 0..MaxBombTimer, m \in 0..MaxBombRadius }
    /\ cells = INITIAL_SNAKE_CELLS
    /\ direction = INITIAL_SNAKE_DIRECTION
    /\ grow_turns = 0
    /\ apples = <<>>
    /\ score = 0
    /\ should_quit = FALSE
    /\ new_score_available = TRUE
    /\ pc = "ready"
    /\ rounds = 0
    /\ last = Called("init", FALSE, <<>>, "none", "none", "none", <<>>)
    /\ eaten = 0
    /\ asked = FALSE
    /\ reported = 0
    /\ growth = <<>>

\* Bomb.advance()
BombAdvance ==
    /\ bomb.current_radius < MaxBombRadius
    /\ bomb' = advance(bomb)
    /\ last' = Called("advance", FALSE, <<>>, "none", "none", "none", <<>>)
    /\ UNCHANGED <<cells, direction, grow_turns, apples, score, should_quit,
                   new_score_available, pc, rounds, eaten, asked, reported, growth>>

\* Bomb.get_all_cells(); the list returned is last'.ret
BombCells ==
    /\ last' = Called("cells", FALSE, <<>>, "none", "none", "none",
                      get_all_cells(bomb))
    /\ UNCHANGED <<cells, direction, grow_turns, apples, bomb, score, should_quit,
                   new_score_available, pc, rounds, eaten, asked, reported, growth>>

NextBomb == BombAdvance \/ BombCells

SpecBomb == InitBomb /\ [][NextBomb]_vars

----------------------------------------------------------------------------
(* A board late in a game: the snake has filled all but a few cells *)

\* The cells of the grid in the order of a path that winds row by row from
\* the bottom row to the right end of the top row, n in 0..WIDTH*HEIGHT-1
PathCell(n) ==
    <<IF ((HEIGHT - 1 - (n \div WIDTH)) % 2) = 0
      THEN n % WIDTH ELSE WIDTH - 1 - (n % WIDTH),
      n \div WIDTH>>

\* The numbers of cells the snake has left over
Pockets == {4, 5, 6}

\* The <<max_radius, turns_until_boom>> of the bomb on such a board
LateBombs == { <<d[3], d[4]>> : d \in BombData }

\* A GameBoard in the Running state whose snake lies along the path, heading
\* Right in the top row, with 3 apples and the bomb in the cells left over
InitFull ==
    \E p \in Pockets :
    \E len \in {WIDTH * HEIGHT - p} :
    \E g \in {(3 - (len % 3)) % 3} :
    \E i1, i2, i3, ib \in len..(WIDTH * HEIGHT - 1) :
    \E bd \in LateBombs :
       /\ Cardinality({i1, i2, i3, ib}) = 4
       /\ (i1 < i2 /\ i2 < i3) \/ (i1 > i2 /\ i2 > i3)
       /\ cells = [k \in 1..len |-> PathCell(k - 1)]
       /\ direction = "Right"
       /\ grow_turns = g
       /\ apples = << [cell |-> PathCell(i1), score |-> 1],
                      [cell |-> PathCell(i2), score |-> 1],
                      [cell |-> PathCell(i3), score |-> 1] >>
       /\ bomb = NewBomb(PathCell(ib), bd[2], bd[1])
       /\ score = (len + g - 3) \div 3
       /\ eaten = (len + g - 3) \div 3
       /\ should_quit = FALSE
       /\ new_score_available = TRUE
       /\ pc = "ready"
       /\ rounds = 0
       /\ last = Called("init", FALSE, <<>>, "none", "none", "none", <<>>)
       /\ asked = FALSE
       /\ reported = 0
       /\ growth = <<>>

SpecFull == InitFull /\ [][Next]_vars

\* Games from construction and games from boards late in a game
SpecAny == (Init \/ InitFull) /\ [][Next]_vars

----------------------------------------------------------------------------
(* Vocabulary of the properties, stated without the operators above *)

Range(seq) == {seq[k] : k \in 1..Len(seq)}

OnGrid(c) == c[1] \in 0..(WIDTH - 1) /\ c[2] \in 0..(HEIGHT - 1)

\* The unit vector of a direction: x grows to the right, y grows upwards
Unit(d) ==
    <<(IF d = "Right" THEN 1 ELSE 0) - (IF d = "Left" THEN 1 ELSE 0),
      (IF d = "Up" THEN 1 ELSE 0) - (IF d = "Down" THEN 1 ELSE 0)>>

\* The cells at Manhattan distance exactly r from o, on or off the grid
Ring(o, r) ==
    {<<o[1] + dx, o[2] + sg * (r - Abs(dx))>> : dx \in (-r)..r, sg \in {-1, 1}}

\* The danger cells of a bomb
Danger(b) ==
    IF b.turns_until_boom > 0 THEN {b.cell} ELSE Ring(b.cell, b.current_radius)

\* A step that is one call of execute_round
RoundStep == rounds' = rounds + 1

\* The snake's cells once shortenTail has run in this round
Rest == IF grow_turns > 0 THEN cells ELSE SubSeq(cells, 2, Len(cells))

\* The next head of this round: the head plus the unit vector of the direction
\* after step 1 (the round changes the direction nowhere else)
NextHead ==
    <<cells[Len(cells)][1] + Unit(direction')[1],
      cells[Len(cells)][2] + Unit(direction')[2]>>

\* The next head is illegal: off the grid, on a remaining snake cell, or on a
\* danger cell of the bomb as it is before step 3
HeadIllegal ==
    ~OnGrid(NextHead) \/ NextHead \in Range(Rest) \/ NextHead \in Danger(bomb)

\* Steps 3 and 4 did not run in the round just made
Steps34Skipped ==
    last'.bombstep = "skipped" /\ last'.applestep = "skipped"

----------------------------------------------------------------------------
(* C1 *)

\* C1 as stated: once should_quit is true, every further execute_round is a
\* no-op on should_quit, snake cells, direction, growPending, score, dirty
\* flag, apples and bomb.
C1_NoOpAfterQuit ==
    [][(should_quit /\ RoundStep) =>
          /\ should_quit'
          /\ UNCHANGED <<cells, direction, grow_turns, score,
                         new_score_available, apples, bomb>>]_vars

\* C1 amended: once should_quit is true every further execute_round leaves it
\* true and ends after step 2, so that steps 3 and 4 never run again: the bomb
\* is exactly as it was, no apple is added and the score never decreases.
\* (Steps 1 and 2 still run: the snake's cells, direction and growPending are
\* not preserved, and a legal move onto an apple still eats it.)
C1_QuitAbsorbing ==
    [][(should_quit /\ RoundStep) =>
          /\ should_quit'
          /\ Steps34Skipped
          /\ bomb' = bomb
          /\ Range(apples') \subseteq Range(apples)
          /\ Len(apples') <= Len(apples)
          /\ score' >= score]_vars

\* A round was executed on a board that had already quit, and moved the snake
C1_Witness ==
    /\ last.op = "round" /\ last.before
    /\ last.head \in {"moved", "ate"}
    /\ should_quit

----------------------------------------------------------------------------
(* C2 *)

\* C2: in a round started in Running, step 2 terminates the game if and only
\* if the next head, evaluated after shortenTail, is off the grid, on a snake
\* cell that remains after shortenTail, or on a danger cell of the bomb before
\* it advances; when it does not terminate the head is appended. A move into
\* the cell the tail vacates is legal with growPending = 0 and terminates with
\* growPending > 0.
C2_HeadLegality ==
    [][(~should_quit /\ RoundStep) =>
          /\ (last'.head = "quit") <=> HeadIllegal
          /\ HeadIllegal => (should_quit' /\ cells' = Rest /\ Steps34Skipped)
          /\ ~HeadIllegal => cells' = Append(Rest, NextHead)
          /\ (NextHead = cells[1] /\ grow_turns = 0) => last'.head # "quit"
          /\ (NextHead = cells[1] /\ grow_turns > 0) =>
                (last'.head = "quit" /\ should_quit')]_vars

\* The head has legally moved into the cell the tail vacated in the same round
C2_Witness ==
    /\ last.op = "round" /\ ~last.before
    /\ last.head = "moved"
    /\ last.vacated = <<cells[Len(cells)]>>
    /\ ~should_quit

\* A growing snake was stopped on its own tail cell
C2_WitnessGrowing ==
    /\ last.op = "round" /\ ~last.before
    /\ last.head = "quit" /\ last.vacated = <<>>
    /\ Len(cells) >= 4
    /\ <<cells[Len(cells)][1] + Unit(direction)[1],
         cells[Len(cells)][2] + Unit(direction)[2]>> = cells[1]

----------------------------------------------------------------------------
(* C3 *)

\* C3 as stated: a round that terminates in step 2 leaves the score, the
\* apples, the bomb, the snake's cells and the draw list as they were.
C3_NothingCommitted ==
    [][(~should_quit /\ RoundStep /\ HeadIllegal) =>
          /\ should_quit'
          /\ Steps34Skipped
          /\ UNCHANGED <<score, apples, bomb, cells>>
          /\ draw_board(cells', apples', bomb') = draw_board(cells, apples, bomb)]_vars

\* C3 amended: a round that terminates in step 2 sets should_quit, skips
\* steps 3 and 4 and leaves the score, the dirty flag, the apples and the bomb
\* as they were; no head is appended, but shortenTail has been applied: with
\* growPending = 0 the tail cell is gone from the snake (and from the draw
\* list, which is otherwise the same), with growPending > 0 the cells are as
\* they were and growPending is one less.
C3_OnlyTailCommitted ==
    [][(~should_quit /\ RoundStep /\ HeadIllegal) =>
          /\ should_quit'
          /\ Steps34Skipped
          /\ UNCHANGED <<score, new_score_available, apples, bomb>>
          /\ cells' = Rest
          /\ grow_turns' = (IF grow_turns > 0 THEN grow_turns - 1 ELSE 0)
          /\ draw_board(cells', apples', bomb') =
                (IF grow_turns > 0 THEN draw_board(cells, apples, bomb)
                 ELSE Tail(draw_board(cells, apples, bomb)))]_vars

\* A running game was stopped in step 2 by the wall, the tail cell removed
C3_Witness ==
    /\ last.op = "round" /\ ~last.before
    /\ last.head = "quit" /\ last.vacated # <<>>
    /\ should_quit
    /\ ~OnGrid(<<cells[Len(cells)][1] + Unit(direction)[1],
                 cells[Len(cells)][2] + Unit(direction)[2]>>)

----------------------------------------------------------------------------
(* C4 *)

\* C4: in a round whose next head is legal and not an apple cell, with
\* growPending = 0, step 2 removes exactly the tail cell and appends exactly
\* old head + direction vector; length, score and dirty flag are unchanged.
\* From the initial snake facing Up with no turn: (10,9),(10,10),(10,11).
C4_PlainMove ==
    [][(~should_quit /\ RoundStep /\ grow_turns = 0 /\ ~HeadIllegal
            /\ NextHead \notin {apples[k].cell : k \in 1..Len(apples)}) =>
          /\ cells' = Append(SubSeq(cells, 2, Len(cells)), NextHead)
          /\ Len(cells') = Len(cells)
          /\ UNCHANGED <<score, new_score_available, grow_turns>>
          /\ (rounds = 0 /\ direction' = "Up") =>
                (cells' = << <<10, 9>>, <<10, 10>>, <<10, 11>> >> /\ score' = 0)]_vars

\* The first round, no input, nothing in the way
C4_Witness ==
    /\ rounds = 1 /\ last.op = "round" /\ last.head = "moved"
    /\ cells = << <<10, 9>>, <<10, 10>>, <<10, 11>> >>
    /\ direction = "Up" /\ score = 0

----------------------------------------------------------------------------
(* C5 *)

Min(a, b) == IF a < b THEN a ELSE b

\* C5: a legal move onto an apple in a round started with growPending = 0
\* adds the apple's score, sets the dirty flag, removes that apple, leaves
\* growPending = 3 and the length unchanged; in each of the next 3 rounds that
\* move the snake, keep the game running and eat nothing the tail stays and
\* the length grows by 1; from the 4th on the tail is removed again, the
\* length staying 3 more than when the apple was eaten.
C5_EatThenGrow ==
    [][RoundStep =>
          /\ (~should_quit /\ grow_turns = 0 /\ ~HeadIllegal
                /\ NextHead \in {apples[k].cell : k \in 1..Len(apples)}) =>
                /\ \E k \in 1..Len(apples) :
                      /\ apples[k].cell = NextHead
                      /\ score' = score + apples[k].score
                /\ new_score_available'
                /\ NextHead \notin {apples'[k].cell : k \in 1..Len(apples')}
                /\ grow_turns' = 3
                /\ Len(cells') = Len(cells)
                /\ (~should_quit' /\ pc' = "ready") => growth' = <<Len(cells), 0>>
          /\ growth' # <<>> =>
                /\ Len(cells') = growth'[1] + Min(growth'[2], 3)
                /\ grow_turns' = 3 - Min(growth'[2], 3)
                /\ growth'[2] \in 1..3 =>
                      (Len(cells') = Len(cells) + 1 /\ cells'[1] = cells[1])
                /\ growth'[2] >= 4 =>
                      (Len(cells') = Len(cells) /\ cells'[1] = cells[2])]_vars

\* Four rounds have moved the snake since it ate an apple at length 3
C5_Witness ==
    /\ growth = <<3, 4>>
    /\ Len(cells) = 6 /\ grow_turns = 0
    /\ last.op = "round" /\ last.vacated # <<>>
    /\ ~should_quit

----------------------------------------------------------------------------
(* C6 *)

\* growPending once shortenTail has run in this round
GrowRest == IF grow_turns > 0 THEN grow_turns - 1 ELSE 0

\* C6: in any single round, from any reachable state and for any input, at
\* most one apple is eaten: the score grows by nothing or by the score of one
\* apple, growPending is raised by grow() at most once (by 3), and step 2
\* removes at most one apple.
C6_OneApplePerRound ==
    [][RoundStep =>
          /\ eaten' - eaten \in {0, 1}
          /\ \/ (eaten' = eaten /\ score' = score /\ grow_turns' = GrowRest)
             \/ /\ eaten' = eaten + 1
                /\ grow_turns' = GrowRest + 3
                /\ \E k \in 1..Len(apples) :
                      /\ apples[k].cell = cells'[Len(cells')]
                      /\ score' = score + apples[k].score]_vars

\* A second apple has been eaten, in a round of its own
C6_Witness ==
    /\ last.op = "round" /\ last.head = "ate"
    /\ eaten = 2

----------------------------------------------------------------------------
(* C7 *)

Directions == {"Left", "Right", "Up", "Down"}

\* The directions perpendicular to d, and the one opposite to it
Perpendicular(d) ==
    {e \in Directions : Unit(d)[1] * Unit(e)[1] + Unit(d)[2] * Unit(e)[2] = 0}
Opposite(d) ==
    CHOOSE e \in Directions :
        Unit(d)[1] + Unit(e)[1] = 0 /\ Unit(d)[2] + Unit(e)[2] = 0

\* C7: changeDirection changes the direction only to one of the two
\* directions perpendicular to the current one; a request for the current
\* direction, its opposite or no key leaves it unchanged. Across any round
\* the direction stays or turns perpendicular, never to its opposite.
C7_NoReversal ==
    [][/\ \A k \in Keys :
             change_direction(direction, k) =
                (IF k \in Perpendicular(direction) THEN k ELSE direction)
       /\ RoundStep =>
             /\ direction' \in {direction} \cup Perpendicular(direction)
             /\ direction' # Opposite(direction)]_vars

\* The snake has turned twice and now faces Down
C7_Witness ==
    /\ last.op = "round" /\ ~last.before
    /\ direction = "Down"
    /\ last.head = "moved"

----------------------------------------------------------------------------
(* C8 *)

\* C8: for every bomb state get_all_cells is exactly <<origin>> while
\* turnsUntilBoom > 0, and once turnsUntilBoom = 0 lists, without duplicates,
\* exactly the cells (on or off the grid) at Manhattan distance currentRadius
\* from the origin: one cell for radius 0, 8 for radius 2, 4r for r >= 1.
C8_DangerCells ==
    last.op = "cells" =>
       /\ bomb.turns_until_boom > 0 => last.ret = <<bomb.cell>>
       /\ bomb.turns_until_boom = 0 =>
             /\ Range(last.ret) = Ring(bomb.cell, bomb.current_radius)
             /\ \A c \in Range(last.ret) :
                   Abs(c[1] - bomb.cell[1]) + Abs(c[2] - bomb.cell[2])
                      = bomb.current_radius
             /\ Cardinality(Range(last.ret)) = Len(last.ret)
             /\ Len(last.ret) = (IF bomb.current_radius = 0 THEN 1
                                 ELSE 4 * bomb.current_radius)
             /\ bomb.current_radius = 2 => Len(last.ret) = 8

\* The cells of a blast of radius 2 were asked for
C8_Witness ==
    /\ last.op = "cells"
    /\ bomb.turns_until_boom = 0 /\ bomb.current_radius = 2
    /\ Len(last.ret) = 8
    /\ <<bomb.cell[1], bomb.cell[2] + 2>> \in Range(last.ret)

----------------------------------------------------------------------------
(* C9 *)

\* C9 as stated: a bomb with maxRadius = 0 and turnsUntilBoom > 0 stays on the
\* board while its timer counts down; it is not replaced as spent while
\* turnsUntilBoom is still greater than 0.
C9_ZeroRadiusBombWaits ==
    [][(RoundStep /\ bomb.max_radius = 0 /\ bomb.turns_until_boom > 0) =>
          last'.bombstep # "spent_replaced"]_vars

----------------------------------------------------------------------------
(* C10 *)

\* A step that is a call of get_new_score
ScoreStep == last'.op = "score" /\ asked' /\ rounds' = rounds

\* C10 as stated: a call returns the current score only if an apple was eaten
\* since the previous call (since construction, for the first call), and
\* returns None otherwise.
C10_OnlyChangedScores ==
    [][ScoreStep => ((last'.ret # <<>>) <=> (eaten > reported))]_vars

\* C10 amended: a call returns the current score if and only if it is the
\* first call since construction (which returns the initial score, 0 when no
\* apple was eaten yet) or an apple was eaten since the previous call, and
\* returns None otherwise; so a second call with no apple eaten in between
\* returns None. (A score replaced by a later one before any call is never
\* returned.)
C10_FirstOrChanged ==
    [][ScoreStep =>
          /\ (last'.ret # <<>>) <=> (~asked \/ eaten > reported)
          /\ last'.ret # <<>> => last'.ret = <<score>>
          /\ ~new_score_available'
          /\ UNCHANGED score]_vars

\* A call returned the score as changed by apples eaten since the
\* previous call (or since construction)
C10_Witness ==
    /\ last.op = "score"
    /\ last.ret = <<score>> /\ score > 0
    /\ reported = eaten /\ eaten > 0
    /\ ~new_score_available

----------------------------------------------------------------------------
(* C11 *)

\* The game is Running and between two calls
Running == pc = "ready" /\ ~should_quit

\* C11: after construction and after every round that leaves the game
\* Running the board holds exactly 3 apples (an apple eaten in step 2 or
\* destroyed by the blast in step 3 is replaced in step 4 of the same round),
\* and the number of apples never exceeds 3.
C11_ThreeApples ==
    /\ Len(apples) <= 3
    /\ Running => Len(apples) = 3

\* An apple was eaten in a round that left the game Running with 3 apples
C11_Witness ==
    /\ last.op = "round" /\ ~last.before
    /\ last.head = "ate" /\ last.applestep = "ok"
    /\ Running
    /\ Len(apples) = 3

----------------------------------------------------------------------------
(* C12 *)

\* The cells of the grid, and those free of snake, apples and danger cells
Grid == (0..(WIDTH - 1)) \X (0..(HEIGHT - 1))
FreeCells ==
    Grid \ (Range(cells) \cup {apples[k].cell : k \in 1..Len(apples)}
                         \cup Danger(bomb))

\* C12: step 4 of a round started in Running terminates the game exactly
\* when fewer than 3 apples exist and no cell of the grid is free of snake
\* cells, apple cells and danger cells of the bomb; when it asks for a
\* randomized apple instead, a legal empty cell exists: a placement that
\* cannot end has a free cell it never draws, and every apple on the board
\* lies on the grid, off the snake, off the danger cells and off the others.
C12_BoardFull ==
    (last.op = "round" /\ ~last.before
        /\ last.applestep \in {"ok", "full", "hung"}) =>
       /\ (last.applestep = "full") <=> (Len(apples) < 3 /\ FreeCells = {})
       /\ should_quit <=> (last.applestep = "full")
       /\ last.applestep = "hung" => (Len(apples) < 3 /\ FreeCells # {})
       /\ last.applestep = "ok" => Len(apples) = 3
       /\ \A k \in 1..Len(apples) :
             /\ OnGrid(apples[k].cell)
             /\ apples[k].cell \notin Range(cells) \cup Danger(bomb)
             /\ \A j \in 1..Len(apples) : j # k => apples[j].cell # apples[k].cell

\* Step 4 has ended the game on a board with 2 apples and no free cell
C12_Witness ==
    /\ last.op = "round" /\ ~last.before
    /\ last.applestep = "full"
    /\ should_quit
    /\ Len(apples) = 2
    /\ FreeCells = {}

\* Step 4 has put an apple on the only free cell there was
C12_WitnessLastCell ==
    /\ last.op = "round" /\ ~last.before
    /\ last.applestep = "ok" /\ last.head = "ate"
    /\ Len(apples) = 3
    /\ FreeCells = {}
    /\ ~should_quit

----------------------------------------------------------------------------
(* C13 *)

\* C13: at the start of every round (after construction and after every
\* round that leaves the game Running) the snake's cells, the apples' cells
\* and the bomb's danger cells are pairwise disjoint, the apples lie on
\* pairwise distinct cells, and all of these cells are on the grid.
C13_NoOverlap ==
    Running =>
       LET S == Range(cells)
           A == {apples[k].cell : k \in 1..Len(apples)}
           D == Danger(bomb)
       IN  /\ S \cap A = {}
           /\ S \cap D = {}
           /\ A \cap D = {}
           /\ Cardinality(A) = Len(apples)
           /\ \A c \in S \cup A \cup D : OnGrid(c)

\* A round has left the game Running next to a blast ring of radius 1
C13_Witness ==
    /\ Running
    /\ last.op = "round" /\ last.bombstep = "advanced"
    /\ bomb.turns_until_boom = 0 /\ bomb.current_radius = 1
    /\ Cardinality(Danger(bomb)) = 4

----------------------------------------------------------------------------
(* C14 *)

\* C14: in every state reachable while the game is Running the snake's cell
\* sequence (tail to head) is non-empty, consecutive cells are at Manhattan
\* distance exactly 1, and no cell appears twice.
C14_SnakeShape ==
    ~should_quit =>
       /\ cells # <<>>
       /\ \A k \in 1..(Len(cells) - 1) :
             Abs(cells[k + 1][1] - cells[k][1])
                + Abs(cells[k + 1][2] - cells[k][2]) = 1
       /\ Cardinality(Range(cells)) = Len(cells)

\* The game is Running with a snake of 6 cells that has turned twice
C14_Witness ==
    /\ Running
    /\ last.op = "round"
    /\ Len(cells) = 6
    /\ direction = "Down"
    /\ cells[1][1] # cells[Len(cells)][1]

----------------------------------------------------------------------------
(* C15 *)

\* The round just made kept the bomb object it started with
SameBomb == last'.bombstep \in {"skipped", "advanced", "killed", "hung"}

\* The round just made applied advance() to the bomb
Advanced == last'.bombstep \in {"advanced", "killed", "edge_replaced"}

\* C15: for the board's bomb always 0 <= currentRadius <= maxRadius and
\* turnsUntilBoom >= 0; over the life of one bomb turnsUntilBoom never
\* increases and currentRadius never decreases, and currentRadius increases,
\* by exactly 1 per round, only in rounds that start with turnsUntilBoom = 0;
\* advance() is never applied to a bomb that is spent.
C15_BombLife ==
    /\ [](/\ 0 <= bomb.current_radius
          /\ bomb.current_radius <= bomb.max_radius
          /\ bomb.turns_until_boom >= 0)
    /\ [][RoundStep =>
            /\ SameBomb =>
                  /\ bomb'.cell = bomb.cell /\ bomb'.max_radius = bomb.max_radius
                  /\ bomb'.turns_until_boom <= bomb.turns_until_boom
                  /\ bomb'.current_radius >= bomb.current_radius
                  /\ bomb'.current_radius # bomb.current_radius =>
                        /\ bomb'.current_radius = bomb.current_radius + 1
                        /\ bomb.turns_until_boom = 0
            /\ Advanced => bomb.current_radius < bomb.max_radius
            /\ last'.bombstep \in {"advanced", "killed"} =>
                  \/ /\ bomb.turns_until_boom > 0
                     /\ bomb'.turns_until_boom = bomb.turns_until_boom - 1
                     /\ bomb'.current_radius = bomb.current_radius
                  \/ /\ bomb.turns_until_boom = 0
                     /\ bomb'.turns_until_boom = 0
                     /\ bomb'.current_radius = bomb.current_radius + 1]_vars

\* The blast of a bomb has grown to its largest radius, 2, past a live snake
C15_Witness ==
    /\ last.op = "round" /\ last.bombstep = "advanced"
    /\ bomb.turns_until_boom = 0
    /\ bomb.current_radius = 2 /\ bomb.max_radius = 2
    /\ ~should_quit

----------------------------------------------------------------------------
(* C16 *)

\* The bomb is spent as the round begins (step 2 leaves the bomb alone)
Spent == bomb.current_radius >= bomb.max_radius

\* The danger cells the bomb has once it is advanced in this round
AdvDanger ==
    IF bomb.turns_until_boom > 1 THEN {bomb.cell}
    ELSE IF bomb.turns_until_boom = 1 THEN Ring(bomb.cell, bomb.current_radius)
    ELSE Ring(bomb.cell, bomb.current_radius + 1)

\* The apples as step 2 of the round just made left them
ApplesAfterHead ==
    IF last'.head = "ate"
    THEN SelectSeq(apples, LAMBDA a : a.cell # cells'[Len(cells')])
    ELSE apples

\* Step 3 of the round just made has left every apple in place, has not ended
\* the game, and the bomb of the board is now a new one, on the grid and on no
\* snake or apple cell
BombReplacedOnly ==
    /\ Len(apples') >= Len(ApplesAfterHead)
    /\ SubSeq(apples', 1, Len(ApplesAfterHead)) = ApplesAfterHead
    /\ last'.applestep # "skipped"
    /\ should_quit' => last'.applestep = "full"
    /\ bomb'.current_radius = 0
    /\ OnGrid(bomb'.cell)
    /\ bomb'.cell \notin Range(cells')
    /\ bomb'.cell \notin {ApplesAfterHead[k].cell : k \in 1..Len(ApplesAfterHead)}

\* The placement loop of step 3 cannot end: the round stays in it, the bomb
\* being b, with nothing else done
BombLoopOnly(b) ==
    /\ bomb' = b
    /\ apples' = ApplesAfterHead
    /\ ~should_quit'
    /\ pc' = "hung"

\* C16: in step 3, when the advanced bomb has a danger cell off the grid, the
\* bomb is replaced by a freshly placed one and the rest of the step is
\* skipped: the bomb does not end the game and no apple is destroyed, even
\* when cells of the advanced ring are snake or apple cells. A bomb spent as
\* step 3 begins is replaced without being advanced or tested for collisions.
C16_ReplacedNotResolved ==
    [][(RoundStep /\ ~should_quit /\ last'.bombstep # "skipped") =>
          /\ (~Spent /\ \E c \in AdvDanger : ~OnGrid(c)) =>
                \/ last'.bombstep = "edge_replaced" /\ BombReplacedOnly
                \/ /\ last'.bombstep = "hung"
                   /\ BombLoopOnly([bomb EXCEPT
                         !.turns_until_boom = IF @ > 0 THEN @ - 1 ELSE 0,
                         !.current_radius =
                            IF bomb.turns_until_boom > 0 THEN @ ELSE @ + 1])
          /\ Spent =>
                \/ last'.bombstep = "spent_replaced" /\ BombReplacedOnly
                \/ last'.bombstep = "hung" /\ BombLoopOnly(bomb)]_vars

\* The bomb at (11, 10) was replaced in round 2, when its ring of radius 1
\* left the grid at (12, 10), with the snake alive on the ring's cell (10, 10)
C16_Witness ==
    /\ rounds = 2
    /\ last.op = "round" /\ last.bombstep = "edge_replaced"
    /\ <<10, 10>> \in Range(cells)
    /\ Running

----------------------------------------------------------------------------
(* C17 *)

\* Step 3 of the round just made has left the score and the dirty flag as
\* step 2 left them
ScoreAsAfterHead ==
    IF last'.head = "ate"
    THEN /\ \E k \in 1..Len(apples) :
               /\ apples[k].cell = cells'[Len(cells')]
               /\ score' = score + apples[k].score
         /\ new_score_available'
    ELSE UNCHANGED <<score, new_score_available>>

\* The apples step 2 left that are on no danger cell of the advanced bomb
ApplesOffBlast ==
    SelectSeq(ApplesAfterHead, LAMBDA a : a.cell \notin AdvDanger)

\* C17: in step 3, when the danger cells of the advanced bomb are all on the
\* grid: if one of them is a snake cell (the head committed in step 2
\* included) the game terminates and step 4 does not run; otherwise every
\* apple on a danger cell is removed and no other, and the score and the
\* dirty flag are not changed by the step.
C17_BlastResolved ==
    [][(RoundStep /\ ~should_quit /\ last'.bombstep # "skipped"
            /\ ~Spent /\ \A c \in AdvDanger : OnGrid(c)) =>
          /\ Danger(bomb') = AdvDanger
          /\ ScoreAsAfterHead
          /\ IF AdvDanger \cap Range(cells') # {}
             THEN /\ last'.bombstep = "killed"
                  /\ should_quit'
                  /\ last'.applestep = "skipped"
                  /\ Len(apples') <= Len(ApplesAfterHead)
             ELSE /\ last'.bombstep = "advanced"
                  /\ last'.applestep # "skipped"
                  /\ Len(apples') >= Len(ApplesOffBlast)
                  /\ SubSeq(apples', 1, Len(ApplesOffBlast)) = ApplesOffBlast
                  /\ \A k \in 1..Len(apples') : apples'[k].cell \notin AdvDanger
                  /\ should_quit' => last'.applestep = "full"]_vars

\* The blast has reached the head that step 2 of the same round committed
C17_Witness ==
    /\ last.op = "round" /\ ~last.before
    /\ last.head \in {"moved", "ate"} /\ last.bombstep = "killed"
    /\ last.applestep = "skipped"
    /\ cells[Len(cells)] \in Danger(bomb)
    /\ should_quit

----------------------------------------------------------------------------
(* C18 *)

\* C18: after construction and after every round that leaves the game
\* Running, snake length + growPending = 3 + 3 * (apples eaten so far); the
\* growth of several apples adds up, and the length of the snake does not
\* decrease across a round that leaves the game Running.
C18_GrowthAccount ==
    /\ [](Running => Len(cells) + grow_turns = 3 + 3 * eaten)
    /\ [][(RoundStep /\ ~should_quit /\ ~should_quit') =>
             /\ Len(cells') >= Len(cells)
             /\ Len(cells') - Len(cells) \in {0, 1}
             /\ eaten' > eaten => grow_turns' = GrowRest + 3]_vars

\* A second apple was eaten while growth from the first was still pending
C18_Witness ==
    /\ Running
    /\ last.op = "round" /\ last.head = "ate"
    /\ eaten = 2
    /\ grow_turns > 3
    /\ Len(cells) + grow_turns = 9

----------------------------------------------------------------------------
(* C19 *)

\* The grid cells that are free of the snake and of the apples as randomized
\* bomb placement is invoked in step 3 of the round just made
FreeForBomb ==
    Grid \ (Range(cells')
              \cup {ApplesAfterHead[k].cell : k \in 1..Len(ApplesAfterHead)})

\* C19: every time randomized bomb placement is invoked (at construction,
\* when the bomb is spent, when the blast leaves the grid) at least one cell
\* of the grid is on neither the snake nor an apple, so that the redraw loop
\* has a legal draw; the bomb it returns has its origin on the grid and on no
\* snake or apple cell.
C19_BombRespawn ==
    /\ [](last.op = "init" =>
             /\ Grid \ Range(cells) # {}
             /\ OnGrid(bomb.cell)
             /\ bomb.cell \notin
                  Range(cells) \cup {apples[k].cell : k \in 1..Len(apples)})
    /\ [][(RoundStep /\ last'.bombstep
                          \in {"spent_replaced", "edge_replaced", "hung"}) =>
             /\ FreeForBomb # {}
             /\ last'.bombstep # "hung" => bomb'.cell \in FreeForBomb]_vars

\* A spent bomb was replaced on the only cell of the grid that neither the
\* snake nor an apple was on
C19_Witness ==
    /\ last.op = "round" /\ last.bombstep = "spent_replaced"
    /\ Len(cells) >= WIDTH * HEIGHT - 6
    /\ Grid \ (Range(cells) \cup {apples[k].cell : k \in 1..Len(apples)})
          = {bomb.cell}

\* A bomb whose blast left the grid was replaced on a board nearly full
C19_WitnessEdge ==
    /\ last.op = "round" /\ last.bombstep = "edge_replaced"
    /\ Len(cells) >= WIDTH * HEIGHT - 6

----------------------------------------------------------------------------
(* C20 *)

\* C20: when every round from a freshly constructed board is executed with
\* no direction input and every randomized placement returns, the game is
\* Terminated after at most HEIGHT - 10 rounds: the snake keeps facing Up
\* from its head at (10, 10) and leaves the grid, unless the bomb or a full
\* board stops it earlier.
C20_EndsWithoutInput ==
    /\ direction = "Up"
    /\ (pc = "ready" /\ rounds >= HEIGHT - 10) => should_quit
    /\ Running => cells[Len(cells)] = <<10, 10 + rounds>>

\* The snake has gone up to the top row and left the grid from there, in
\* round HEIGHT - 10
C20_Witness ==
    /\ rounds = HEIGHT - 10
    /\ last.op = "round" /\ ~last.before /\ last.head = "quit"
    /\ cells[Len(cells)] = <<10, HEIGHT - 1>>
    /\ should_quit

====
